---- MODULE Spec2Model ----
(***************************************************************************)
(* State-machine model of the chat front end of the Samastha assistant:    *)
(* the lead-capture dialogue of ChatInterface (handleSend, handleKnowMore, *)
(* handleAudioCaptured, processQuery), the VoiceInput recorder button,    *)
(* the live voice session (startLiveSession, stopLiveSession, the          *)
(* callbacks of connectLiveSession), the services the turns call           *)
(* (getEmbeddings, cosineSimilarity, findBestMatches, chunkText,           *)
(* generateRAGResponse), and the Knowledge Store with its audit log as     *)
(* the admin panel writes it (upload, edit, delete).                       *)
(*                                                                         *)
(* React state is read through closures: an event handler sees the state   *)
(* of the render in which it was created.  A discrete event (click, key)   *)
(* is followed by a synchronous re-render, so a handler that starts from   *)
(* an event sees the current state; a callback stored earlier (the         *)
(* MediaRecorder's onstop) and the code after an await keep the values of  *)
(* the render they were created in.  Those captured values are fields of   *)
(* the model's state.                                                      *)
(***************************************************************************)
EXTENDS Integers, Sequences, FiniteSets, TLC

VARIABLES
    messages,          \* ChatInterface: useState<Message[]>
    input,             \* ChatInterface: the text field
    isLoading,         \* ChatInterface: loading flag
    waitingForNumber,  \* ChatInterface: TRUE = AWAITING_CONTACT
    leads,             \* mockDB: the stored Leads (localStorage)
    isRecording,       \* VoiceInput: useState(false)
    recorder,          \* VoiceInput: the recorder the button can stop, and the
                       \* waitingForNumber its onstop handler closed over
    tasks,             \* asynchronous handlers suspended at an await
    offers,            \* history: index of the message each Know More was taken on
    useLiveMode,            \* ChatInterface: settings.useLiveMode, as last polled
    liveSessionRef,         \* ChatInterface: 0 (null) or the session whose promise it holds
    inputAudioContextRef,   \* ChatInterface: 0 (null) or the context pair it points into
    outputAudioContextRef,  \* ChatInterface: 0 (null) or the context pair it points into
    sessions,               \* every startLiveSession call made so far
    audioContexts,          \* the AudioContext pair each of those calls created
    closeErrors,            \* history: close() calls made on an object already closed
    nextStartTimeRef,       \* ChatInterface: the playback cursor
    now,                    \* the wall clock
    playback,               \* history: the inbound audio frames scheduled so far
    handlers,               \* onmessage invocations suspended in a tool call
    call,                   \* a service function under study: its arguments and,
                            \* once it has returned, its result
    storedDocs,             \* mockDB: localStorage 'samastha_docs'
    storedChunks,           \* mockDB: localStorage 'samastha_chunks'
    storedLogs,             \* mockDB: localStorage 'samastha_logs'
    uploads,                \* AdminPanel: handleFileUpload calls suspended at an await
    dateNow                 \* Date.now(), as last read by the Knowledge Store's writers

\* What the live session handlers leave alone.
turnVars == <<messages, input, isLoading, waitingForNumber, leads, tasks, offers>>

\* What the handlers of the outbound side of a live session leave alone.
audioVars == <<nextStartTimeRef, now, playback, handlers>>

liveVars == <<useLiveMode, liveSessionRef, inputAudioContextRef, outputAudioContextRef,
              sessions, audioContexts, closeErrors, audioVars>>

\* The Knowledge Store, the audit log and the administrator's uploads.
storeVars == <<storedDocs, storedChunks, storedLogs, uploads, dateNow>>

\* Everything but the service call under study.
programVars == <<turnVars, isRecording, recorder, liveVars, storeVars>>

vars == <<messages, input, isLoading, waitingForNumber, leads, isRecording,
          recorder, tasks, offers, useLiveMode, liveSessionRef, inputAudioContextRef,
          outputAudioContextRef, sessions, audioContexts, closeErrors,
          nextStartTimeRef, now, playback, handlers, call,
          storedDocs, storedChunks, storedLogs, uploads, dateNow>>

----------------------------------------------------------------------------
(* Bounds of the model *)

MaxMsgs == 6
MaxTasks == 2
MaxSessions == 2
MaxFrames == 2
MaxChunks == 3

----------------------------------------------------------------------------
(* Strings *)

Min(a, b) == IF a < b THEN a ELSE b

Last(s) == s[Len(s)]

IsDigit(c) == c \in {"0", "1", "2", "3", "4", "5", "6", "7", "8", "9"}

IsSpace(c) == c \in {" ", "\t", "\n"}

\* text.replace(/[^0-9]/g, '')
RECURSIVE DigitsOnly(_)
DigitsOnly(s) ==
    IF Len(s) = 0 THEN ""
    ELSE (IF IsDigit(SubSeq(s, 1, 1)) THEN SubSeq(s, 1, 1) ELSE "")
         \o DigitsOnly(SubSeq(s, 2, Len(s)))

\* String.prototype.trim
RECURSIVE TrimStart(_)
TrimStart(s) ==
    IF Len(s) > 0 /\ IsSpace(SubSeq(s, 1, 1)) THEN TrimStart(SubSeq(s, 2, Len(s))) ELSE s

RECURSIVE TrimEnd(_)
TrimEnd(s) ==
    IF Len(s) > 0 /\ IsSpace(SubSeq(s, Len(s), Len(s)))
    THEN TrimEnd(SubSeq(s, 1, Len(s) - 1)) ELSE s

Trim(s) == TrimEnd(TrimStart(s))

\* String.prototype.includes
Includes(s, sub) ==
    \E i \in 1..(Len(s) - Len(sub) + 1) : SubSeq(s, i, i + Len(sub) - 1) = sub

\* s.substring(0, n)
Substring0(s, n) == SubSeq(s, 1, Min(n, Len(s)))

\* response.text.replace(/\*\*/g, '')
StripBold(s) ==
    LET rest[i \in 1..(Len(s) + 2)] ==
            IF i > Len(s) THEN ""
            ELSE IF i < Len(s) /\ SubSeq(s, i, i + 1) = "**" THEN rest[i + 2]
            ELSE SubSeq(s, i, i) \o rest[i + 1]
    IN rest[1]

----------------------------------------------------------------------------
(* Texts of the program *)

AppName == "Samastha AI"
AppDescription == "A multilingual AI assistant for Samastha Kerala Jamiyyathul Ulama."

WelcomeText == "**Assalamu Alaikum.**\n\nI am " \o AppName \o ", " \o AppDescription
ContactPrompt ==
    "To generate a **Detailed Report** for you, please verify your **Mobile Number**."
InvalidNumberText == "Please enter a valid phone number (e.g., +91 95265 69313)."
ChatErrorText == "I apologize, but I encountered an error. Please try again."
ReportErrorText == "Error generating detailed report."
GenerationErrorText == "Error generating response. Please try again."
DefaultTopic == "Samastha Kerala Jamiyyathul Ulama"
DefaultContext == "User asked for details"

\* What the user types or says.
Texts == { "   ",
           "When was Samastha founded?",
           "123-456-789",
           "(123) 456-7890",
           "1234567890123456" }

\* The question asked in the scenarios that need one.
LiveQuery == "When was Samastha founded?"

\* What the generative model answers when the call succeeds.
ResponseTexts == { "**Samastha** was founded in 1926." }

----------------------------------------------------------------------------
(* Messages *)

Msg(role, content, isAudio, shareContent) ==
    [role |-> role, content |-> content, isAudio |-> isAudio, shareContent |-> shareContent]

ModelMsg(content) == Msg("model", content, FALSE, "")
UserMsg(content, isAudio) == Msg("user", content, isAudio, "")

ReportContent(topicQuery, text) ==
    "**Lead Verified.**\n\nHere is your detailed report on **\"" \o topicQuery
    \o "\"**:\n\n---\n\n" \o text

ShareableText(text) == StripBold(text) \o "\n\nGenerated by " \o AppName

ReportMsg(topicQuery, text) ==
    Msg("model", ReportContent(topicQuery, text), FALSE, ShareableText(text))

----------------------------------------------------------------------------
(* Lead capture: the pure parts of handleSend *)

\* The upper limit off by one.
ValidContactUpTo16(text) ==
    ~(Len(DigitsOnly(text)) < 10 \/ Len(DigitsOnly(text)) > 16)

\* digitsOnly.length < 10 || digitsOnly.length > 15 is the failure test
ValidContact(text) ==
    ~(Len(DigitsOnly(text)) < 10 \/ Len(DigitsOnly(text)) > 15)

\* messages.filter(m => m.role === 'model').slice(-1)[0]?.content || "User asked for details"
LastContext(msgs) ==
    LET ms == SelectSeq(msgs, LAMBDA m : m.role = "model")
    IN IF Len(ms) > 0 /\ Last(ms).content # "" THEN Last(ms).content ELSE DefaultContext

\* lastContext.substring(0, 100) + "..."
QueryContext(msgs) == Substring0(LastContext(msgs), 100) \o "..."

\* messages.slice().reverse().find(m => m.role === 'user' && m.content !== text)
TopicQuery(msgs, text) ==
    LET idx == { i \in 1..Len(msgs) : msgs[i].role = "user" /\ msgs[i].content # text }
    IN IF idx = {} THEN DefaultTopic
       ELSE msgs[CHOOSE i \in idx : \A j \in idx : j <= i].content

\* The stored list replaced instead of extended.
AddLeadOverwriting(stored, lead) == << lead >>

\* mockDB.addLead: getLeads, push, setItem
AddLead(stored, lead) == Append(stored, lead)

\* The button also offered on a delivered report.
CanKnowMoreOnReport ==
    /\ Len(messages) > 0
    /\ LET msg == Last(messages)
       IN /\ msg.role = "model"
          /\ ~isLoading
          /\ ~waitingForNumber
          /\ ~Includes(msg.content, "Mobile Number")

\* The render condition of the Know More button, and of the "k" shortcut.
CanKnowMore ==
    /\ Len(messages) > 0
    /\ LET msg == Last(messages)
       IN /\ msg.role = "model"
          /\ ~isLoading
          /\ ~waitingForNumber
          /\ ~Includes(msg.content, "Mobile Number")
          /\ msg.shareContent = ""

----------------------------------------------------------------------------
(* Suspended asynchronous handlers *)

\* kind "transcribe": handleAudioCaptured awaiting transcribeAudio, with the
\*   waitingForNumber it closed over;
\* kind "query": processQuery, kind "report": handleSend's report branch, with
\*   the query text or the report topic, awaiting getEmbeddings (stage
\*   "embedding") or generateRAGResponse (stage "generating", embedding =
\*   the query embedding obtained: "vector" or "empty").
\* turn: history, the number of the turn the handler belongs to.
Task(kind, stage, text, waiting, isVoice) ==
    [kind |-> kind, stage |-> stage, text |-> text, waiting |-> waiting,
     isVoice |-> isVoice, embedding |-> "none", turn |-> 0]

Turns(ts) == { ts[i].turn : i \in 1..Len(ts) }

\* The turn of a handler that starts while the handlers ts go on: the turn
\* of the handler it continues (handleAudioCaptured going on into
\* processQuery), else the least number that no handler in flight has.
TurnFor(ts) ==
    IF Turns(tasks) \ Turns(ts) # {} THEN CHOOSE t \in Turns(tasks) \ Turns(ts) : TRUE
    ELSE CHOOSE t \in 1..(Len(ts) + 1) :
            t \notin Turns(ts) /\ \A u \in 1..(t - 1) : u \in Turns(ts)

\* The handlers in flight once a handler was called on top of ts.
Started(ts, task) == Append(ts, [task EXCEPT !.turn = TurnFor(ts)])

RemoveAt(s, i) == SubSeq(s, 1, i - 1) \o SubSeq(s, i + 1, Len(s))

\* Messages the suspended handlers may still append.
RECURSIVE Pending(_)
Pending(ts) ==
    IF Len(ts) = 0 THEN 0
    ELSE (IF ts[1].kind = "transcribe" THEN (IF ts[1].waiting THEN 0 ELSE 2) ELSE 1)
         + Pending(Tail(ts))

Room(n) == Len(messages) + Pending(tasks) + n <= MaxMsgs

NoRecorder == [active |-> FALSE, waiting |-> FALSE]

\* VoiceInput's effect on [disabled, isLiveMode]: a recording in progress is
\* forgotten (not stopped) when the button becomes disabled.  stopRecording
\* needs isRecording and startRecording replaces mediaRecorderRef.current, so
\* a forgotten recorder's onstop never runs.
RecordingAfter(loading) ==
    IF ~useLiveMode /\ loading /\ ~isLoading /\ isRecording THEN FALSE ELSE isRecording

RecorderAfter(loading) ==
    IF ~useLiveMode /\ loading /\ ~isLoading /\ isRecording THEN NoRecorder ELSE recorder

\* What the speech-to-text call returns (response.text.trim()).
Transcripts == { Trim(t) : t \in { "When was Samastha founded?", " (123) 456-7890 " } }

----------------------------------------------------------------------------
(* Initial state: the component is mounted and the first loadAndSync ran. *)

\* No service function is under study.
NoCall == [fn |-> "none"]

StoredLeads ==
    { << [phoneNumber |-> "+91 90000 00000", queryContext |-> "Earlier answer..."] >> }

\* No live session was started yet.
InitRefs ==
    /\ liveSessionRef = 0
    /\ inputAudioContextRef = 0
    /\ outputAudioContextRef = 0
    /\ sessions = <<>>
    /\ audioContexts = <<>>
    /\ closeErrors = {}
    /\ nextStartTimeRef = 0
    /\ now = 0
    /\ playback = <<>>
    /\ handlers = <<>>

InitLive == useLiveMode = FALSE /\ InitRefs

\* A stored document and a stored chunk.  has: the record has an embedding
\* field (every chunk the program stores has one).
UploadedDocument(id, title, chunkCount) ==
    [id |-> id, title |-> title, chunkCount |-> chunkCount]

DocumentChunk(id, docId, docTitle, text, embedding) ==
    [id |-> id, docId |-> docId, docTitle |-> docTitle, text |-> text,
     has |-> TRUE, embedding |-> embedding]

\* An audit log entry: its timestamp, which is also its id.
AuditLog(timestamp) == [timestamp |-> timestamp]

SeedTitle == "Samastha Constitution"
SeedText == "Samastha Kerala Jamiyyathul Ulama is the largest Muslim organization in Kerala."

\* new Array(768).fill(0.1): a constant vector, not computed from the text.
SeedEmbedding == << 1, 1 >>

\* The store after the module was loaded on an empty localStorage: getLogs
\* yields the default login entry, the seed document is added (and logged)
\* and its chunk after it.
InitStore ==
    /\ storedDocs = << UploadedDocument("seed-1", SeedTitle, 1) >>
    /\ storedChunks = << DocumentChunk("chunk-1", "seed-1", SeedTitle, SeedText, SeedEmbedding) >>
    /\ storedLogs = << AuditLog(1), AuditLog(0) >>
    /\ uploads = <<>>
    /\ dateNow = 1

\* The chat before its first turn.
InitChat ==
    /\ messages = << ModelMsg(WelcomeText) >>
    /\ input = ""
    /\ isLoading = FALSE
    /\ waitingForNumber = FALSE
    /\ leads \in StoredLeads
    /\ isRecording = FALSE
    /\ recorder = NoRecorder
    /\ tasks = <<>>
    /\ offers = <<>>

InitProgram == InitLive /\ InitChat /\ InitStore

Init == InitProgram /\ call = NoCall

\* The administrator has switched live mode on.
InitLiveMode == useLiveMode = TRUE /\ InitRefs /\ InitChat /\ InitStore /\ call = NoCall

----------------------------------------------------------------------------
(* ChatInterface *)

\* onChange of the text field, which is disabled while loading: t is typed
\* into the empty field, or the field is cleared.
SetInput(t) ==
    /\ ~isLoading
    /\ ~useLiveMode
    /\ t # input
    /\ input = "" \/ t = ""
    /\ input' = t
    /\ UNCHANGED <<messages, isLoading, waitingForNumber, leads, isRecording, recorder,
                   tasks, offers>>

\* processQuery(queryText, isVoice) up to its first await.
ProcessQueryStart(queryText, isVoice, ts) ==
    /\ messages' = Append(messages, UserMsg(queryText, isVoice))
    /\ isLoading' = TRUE
    /\ isRecording' = RecordingAfter(TRUE)
    /\ recorder' = RecorderAfter(TRUE)
    /\ tasks' = Started(ts, Task("query", "embedding", queryText, FALSE, isVoice))

\* handleSend, branch waitingForNumber, validation failure.
SendInvalidContact(text) ==
    /\ Room(1)
    /\ messages' = Append(messages, ModelMsg(InvalidNumberText))
    /\ UNCHANGED <<isLoading, waitingForNumber, leads, isRecording, recorder, tasks, offers>>

\* handleSend, branch waitingForNumber, validation success, up to its first await.
SendValidContact(text) ==
    /\ Room(2)
    /\ Len(tasks) < MaxTasks
    /\ waitingForNumber' = FALSE
    /\ messages' = Append(messages, UserMsg(text, FALSE))
    /\ leads' = AddLead(leads, [phoneNumber |-> text, queryContext |-> QueryContext(messages)])
    /\ isLoading' = TRUE
    /\ isRecording' = RecordingAfter(TRUE)
    /\ recorder' = RecorderAfter(TRUE)
    /\ tasks' = Started(tasks, Task("report", "embedding", TopicQuery(messages, text),
                                    FALSE, FALSE))
    /\ UNCHANGED offers

\* handleSend, default branch.
SendQuery(text) ==
    /\ Room(2)
    /\ Len(tasks) < MaxTasks
    /\ ProcessQueryStart(text, FALSE, tasks)
    /\ UNCHANGED <<waitingForNumber, leads, offers>>

HandleSend ==
    /\ Trim(input) # ""
    /\ ~useLiveMode
    /\ input' = ""
    /\ IF waitingForNumber
       THEN IF ValidContact(input) THEN SendValidContact(input) ELSE SendInvalidContact(input)
       ELSE SendQuery(input)

HandleKnowMore ==
    /\ CanKnowMore
    /\ Room(1)
    /\ messages' = Append(messages, ModelMsg(ContactPrompt))
    /\ waitingForNumber' = TRUE
    /\ offers' = Append(offers, Len(messages))
    /\ UNCHANGED <<input, isLoading, leads, isRecording, recorder, tasks>>

----------------------------------------------------------------------------
(* VoiceInput, not in live mode *)

\* handleClick -> startRecording: the recorder's onstop closes over the
\* onAudioCaptured of this render, hence over this render's waitingForNumber.
StartRecording ==
    /\ ~useLiveMode
    /\ ~isRecording
    /\ ~isLoading
    /\ recorder' = [active |-> TRUE, waiting |-> waitingForNumber]
    /\ isRecording' = TRUE
    /\ UNCHANGED <<messages, input, isLoading, waitingForNumber, leads, tasks, offers>>

\* handleClick -> stopRecording -> onstop -> handleAudioCaptured up to its first await.
StopRecording ==
    /\ ~useLiveMode
    /\ isRecording
    /\ recorder.active
    /\ Len(tasks) < MaxTasks
    /\ recorder.waiting \/ Room(2)
    /\ recorder' = NoRecorder
    /\ isRecording' = FALSE
    /\ isLoading' = TRUE
    /\ tasks' = Started(tasks, Task("transcribe", "transcribing", "", recorder.waiting, TRUE))
    /\ UNCHANGED <<messages, input, waitingForNumber, leads, offers>>

----------------------------------------------------------------------------
(* Continuations *)

\* handleAudioCaptured after transcribeAudio resolved with a non-empty text.
Transcribed(i, transcription) ==
    /\ i \in 1..Len(tasks)
    /\ tasks[i].kind = "transcribe"
    /\ IF tasks[i].waiting
       THEN /\ input' = transcription
            /\ isLoading' = FALSE
            /\ tasks' = RemoveAt(tasks, i)
            /\ UNCHANGED <<messages, waitingForNumber, leads, isRecording, recorder, offers>>
       ELSE /\ ProcessQueryStart(transcription, TRUE, RemoveAt(tasks, i))
            /\ UNCHANGED <<input, waitingForNumber, leads, offers>>

\* handleAudioCaptured when transcribeAudio throws or returns "".
TranscribeFailed(i) ==
    /\ i \in 1..Len(tasks)
    /\ tasks[i].kind = "transcribe"
    /\ isLoading' = FALSE
    /\ tasks' = RemoveAt(tasks, i)
    /\ UNCHANGED <<messages, input, waitingForNumber, leads, isRecording, recorder, offers>>

\* processQuery / handleSend after getEmbeddings resolved: the retrieval is
\* synchronous and the handler suspends again in generateRAGResponse.
\* getEmbeddings never throws: a failed embedding is the empty vector.
Embedded(i, embedding) ==
    /\ i \in 1..Len(tasks)
    /\ tasks[i].kind \in {"query", "report"}
    /\ tasks[i].stage = "embedding"
    /\ tasks' = [tasks EXCEPT ![i].stage = "generating", ![i].embedding = embedding]
    /\ UNCHANGED <<messages, input, isLoading, waitingForNumber, leads, isRecording,
                   recorder, offers>>

\* The flag left as it is when a turn ends.
FinallyKeepsLoading(loading) == loading

\* finally { setIsLoading(false) }
Finally(loading) == FALSE

\* The synchronous retrieval (mockDB.getChunks, findBestMatches) throws: the
\* handler's catch appends its error message, its finally clears the flag.
RetrievalThrew(i) ==
    /\ i \in 1..Len(tasks)
    /\ tasks[i].kind \in {"query", "report"}
    /\ tasks[i].stage = "embedding"
    /\ messages' = Append(messages, ModelMsg(IF tasks[i].kind = "report"
                                              THEN ReportErrorText ELSE ChatErrorText))
    /\ isLoading' = Finally(isLoading)
    /\ tasks' = RemoveAt(tasks, i)
    /\ UNCHANGED <<input, waitingForNumber, leads, isRecording, recorder, offers>>

\* generateRAGResponse: the model's text, or the fixed error text when the call fails.
GenerationResults == ResponseTexts \cup {GenerationErrorText}

\* The message a handler appends once generateRAGResponse resolved.
ReplyMsg(task, text) ==
    IF task.kind = "report" THEN ReportMsg(task.text, text) ELSE ModelMsg(text)

\* processQuery / handleSend after generateRAGResponse resolved.
Generated(i, text) ==
    /\ i \in 1..Len(tasks)
    /\ tasks[i].kind \in {"query", "report"}
    /\ tasks[i].stage = "generating"
    /\ messages' = Append(messages, ReplyMsg(tasks[i], text))
    /\ isLoading' = Finally(isLoading)
    /\ tasks' = RemoveAt(tasks, i)
    /\ UNCHANGED <<input, waitingForNumber, leads, isRecording, recorder, offers>>

----------------------------------------------------------------------------
(* The chat specification *)

ChatNext ==
    \/ \E t \in Texts \cup {""} : SetInput(t)
    \/ HandleSend
    \/ HandleKnowMore
    \/ StartRecording
    \/ StopRecording
    \/ \E i \in 1..MaxTasks, t \in Transcripts : Transcribed(i, t)
    \/ \E i \in 1..MaxTasks : TranscribeFailed(i)
    \/ \E i \in 1..MaxTasks, e \in {"vector", "empty"} : Embedded(i, e)
    \/ \E i \in 1..MaxTasks : RetrievalThrew(i)
    \/ \E i \in 1..MaxTasks, t \in GenerationResults : Generated(i, t)

Next == ChatNext /\ UNCHANGED <<liveVars, call, storeVars>>

Spec == Init /\ [][Next]_vars

\* The handler of turn s goes on from its await: the provider call it waits
\* for settles, one way or the other.
Settle(s) ==
    \E i \in 1..MaxTasks :
        /\ i <= Len(tasks)
        /\ tasks[i].turn = s
        /\ \/ Transcribed(i, LiveQuery)
           \/ TranscribeFailed(i)
           \/ Embedded(i, "vector")
           \/ RetrievalThrew(i)
           \/ \E t \in GenerationResults : Generated(i, t)
        /\ UNCHANGED <<liveVars, call, storeVars>>

\* The turns of a conversation: a question and a mobile number are typed
\* or spoken, and every provider call settles.
TurnNext ==
    \/ (\/ \E t \in { LiveQuery, "(123) 456-7890" } : SetInput(t)
        \/ HandleSend
        \/ HandleKnowMore
        \/ StartRecording
        \/ StopRecording)
       /\ UNCHANGED <<liveVars, call, storeVars>>
    \/ \E s \in 1..MaxTasks : Settle(s)

TurnSpec == Init /\ [][TurnNext]_vars /\ \A s \in 1..MaxTasks : WF_vars(Settle(s))

\* The updater loadAndSync hands to setMessages, replacing the history by
\* the welcome message whatever it holds.
WelcomeAlways(prevMsgs) == << ModelMsg(WelcomeText) >>

\* The updater loadAndSync hands to setMessages.
WelcomeIfEmpty(prevMsgs) ==
    IF Len(prevMsgs) = 0 THEN << ModelMsg(WelcomeText) >> ELSE prevMsgs

\* loadAndSync, on mount and every second after: current is the live-mode
\* setting it reads from the store.
LoadAndSync(current) ==
    /\ useLiveMode' = current
    /\ isRecording' = IF useLiveMode /\ ~current /\ isLoading /\ isRecording
                      THEN FALSE ELSE isRecording
    /\ messages' = WelcomeIfEmpty(messages)
    /\ UNCHANGED <<input, isLoading, waitingForNumber, leads, tasks, offers, recorder,
                   liveSessionRef, inputAudioContextRef, outputAudioContextRef, sessions,
                   audioContexts, closeErrors, audioVars, call, storeVars>>

\* The component after its first render: useState([]) and the mount effect
\* not yet run.
InitHistory ==
    /\ messages = <<>>
    /\ input = ""
    /\ isLoading = FALSE
    /\ waitingForNumber = FALSE
    /\ leads \in StoredLeads
    /\ isRecording = FALSE
    /\ recorder = NoRecorder
    /\ tasks = <<>>
    /\ offers = <<>>
    /\ InitLive
    /\ InitStore
    /\ call = NoCall

\* The history of a conversation: the mount effect runs loadAndSync before
\* any handler can, and the poll goes on between the handlers' steps.
HistoryNext ==
    \/ \E current \in BOOLEAN : LoadAndSync(current)
    \/ messages # <<>> /\ TurnNext

HistorySpec == InitHistory /\ [][HistoryNext]_vars

----------------------------------------------------------------------------
(* The live voice session *)

\* One startLiveSession call.
\*   state:    "media"      awaiting getUserMedia
\*             "aborted"    the call threw before connecting
\*             "connecting" the session promise is pending
\*             "open", "closed", "failed"
\*   mic:      the MediaStream of getUserMedia is live
\*   procCtx:  0, or the context pair whose input context runs the processor
\*   thens:    callbacks registered on the pending session promise, in order
\*   captured: audio frames the processor has produced
\*   early:    history, how many of them were captured while connecting
\*   received: the sendRealtimeInput calls made on the session, each with
\*             whether the session was open when it was made
\*   issued:   the function calls the session has sent so far
\*   toolResponses: the sendToolResponse calls made on the session
NewSession ==
    [state |-> "media", mic |-> FALSE, procCtx |-> 0, thens |-> <<>>,
     captured |-> 0, early |-> 0, received |-> <<>>, issued |-> 0,
     toolResponses |-> <<>>]

\* born: the wall-clock time at which the pair was created; the currentTime
\* of a context is the time elapsed since, up to closedAt once it is closed.
NewContexts == [input |-> "running", output |-> "running", born |-> now, closedAt |-> 0]

SendThen(frame) == [op |-> "send", frame |-> frame]
CloseThen == [op |-> "close", frame |-> 0]

\* session.sendRealtimeInput({media: ...}) on a resolved session.
SendRealtimeInput(sess, frame) ==
    [sess EXCEPT !.received = Append(@, [frame |-> frame, open |-> sess.state = "open"])]

\* session.close() on a resolved session.
CloseSession(sess) == [sess EXCEPT !.state = "closed"]

\* The callbacks of a promise that resolves, run in registration order.
RECURSIVE RunThensLastFirst(_, _)
RunThensLastFirst(sess, thens) ==
    IF Len(thens) = 0 THEN sess
    ELSE RunThensLastFirst(IF Last(thens).op = "send"
                           THEN [sess EXCEPT !.received =
                                   Append(@, [frame |-> Last(thens).frame,
                                              open |-> sess.state = "open"])]
                           ELSE [sess EXCEPT !.state = "closed"],
                           SubSeq(thens, 1, Len(thens) - 1))

RECURSIVE RunThens(_, _)
RunThens(sess, thens) ==
    IF Len(thens) = 0 THEN sess
    ELSE RunThens(IF thens[1].op = "send" THEN SendRealtimeInput(sess, thens[1].frame)
                  ELSE CloseSession(sess),
                  Tail(thens))

\* handleClick in live mode with isRecording false -> handleLiveToggle(true)
\* -> startLiveSession up to its await of getUserMedia.
StartLiveSession ==
    /\ useLiveMode
    /\ ~isRecording
    /\ ~isLoading
    /\ Len(sessions) < MaxSessions
    /\ isRecording' = TRUE
    /\ sessions' = Append(sessions, NewSession)
    /\ audioContexts' = Append(audioContexts, NewContexts)
    /\ inputAudioContextRef' = Len(audioContexts) + 1
    /\ outputAudioContextRef' = Len(audioContexts) + 1
    /\ nextStartTimeRef' = 0
    /\ UNCHANGED <<turnVars, recorder, useLiveMode, liveSessionRef, closeErrors,
                   now, playback, handlers, call, storeVars>>

\* startLiveSession after getUserMedia resolved: the source and the processor
\* are created on inputAudioContextRef.current as it is now, the session is
\* requested and liveSessionRef set.  created = FALSE: createMediaStreamSource
\* throws, which a browser may do on a closed context.
MediaGranted(k, created) ==
    /\ k \in 1..Len(sessions)
    /\ sessions[k].state = "media"
    /\ created \/ audioContexts[inputAudioContextRef].input = "closed"
    /\ IF created
       THEN /\ sessions' = [sessions EXCEPT ![k].state = "connecting", ![k].mic = TRUE,
                                            ![k].procCtx = inputAudioContextRef]
            /\ liveSessionRef' = k
       ELSE /\ sessions' = [sessions EXCEPT ![k].state = "aborted", ![k].mic = TRUE]
            /\ UNCHANGED liveSessionRef
    /\ UNCHANGED <<turnVars, isRecording, recorder, useLiveMode, inputAudioContextRef,
                   outputAudioContextRef, audioContexts, closeErrors, audioVars, call, storeVars>>

\* getUserMedia rejects: startLiveSession throws, nothing is undone.
MediaDenied(k) ==
    /\ k \in 1..Len(sessions)
    /\ sessions[k].state = "media"
    /\ sessions' = [sessions EXCEPT ![k].state = "aborted"]
    /\ UNCHANGED <<turnVars, isRecording, recorder, useLiveMode, liveSessionRef,
                   inputAudioContextRef, outputAudioContextRef, audioContexts, closeErrors, audioVars, call, storeVars>>

\* ai.live.connect resolves: the session is open and the callbacks registered
\* while it was pending run in order.
Connected(k) ==
    /\ k \in 1..Len(sessions)
    /\ sessions[k].state = "connecting"
    /\ sessions' = [sessions EXCEPT
                      ![k] = RunThens([sessions[k] EXCEPT !.state = "open", !.thens = <<>>],
                                      sessions[k].thens)]
    /\ UNCHANGED <<turnVars, isRecording, recorder, useLiveMode, liveSessionRef,
                   inputAudioContextRef, outputAudioContextRef, audioContexts, closeErrors, audioVars, call, storeVars>>

\* ai.live.connect rejects: the registered callbacks never run.
ConnectFailed(k) ==
    /\ k \in 1..Len(sessions)
    /\ sessions[k].state = "connecting"
    /\ sessions' = [sessions EXCEPT ![k].state = "failed", ![k].thens = <<>>]
    /\ UNCHANGED <<turnVars, isRecording, recorder, useLiveMode, liveSessionRef,
                   inputAudioContextRef, outputAudioContextRef, audioContexts, closeErrors, audioVars, call, storeVars>>

\* The remote endpoint closes the session, or reports an error: onclose and
\* onerror call callbacks.onClose, which startLiveSession passes as () => {}.
OnClose(sess) == sess

RemoteClose(k) ==
    /\ k \in 1..Len(sessions)
    /\ sessions[k].state = "open"
    /\ sessions' = [sessions EXCEPT ![k] = OnClose([sessions[k] EXCEPT !.state = "closed"])]
    /\ UNCHANGED <<turnVars, isRecording, recorder, useLiveMode, liveSessionRef,
                   inputAudioContextRef, outputAudioContextRef, audioContexts, closeErrors, audioVars, call, storeVars>>

\* processor.onaudioprocess: one captured frame, handed to sessionPromise.then.
OnAudioProcess(k) ==
    /\ k \in 1..Len(sessions)
    /\ sessions[k].state \in {"connecting", "open", "closed"}
    /\ sessions[k].mic
    /\ sessions[k].procCtx # 0
    /\ audioContexts[sessions[k].procCtx].input = "running"
    /\ sessions[k].captured < MaxFrames
    /\ LET frame == sessions[k].captured + 1
           sess == [sessions[k] EXCEPT !.captured = frame]
       IN sessions' = [sessions EXCEPT
                         ![k] = IF sess.state = "connecting"
                                THEN [sess EXCEPT !.thens = Append(@, SendThen(frame)),
                                                  !.early = @ + 1]
                                ELSE SendRealtimeInput(sess, frame)]
    /\ UNCHANGED <<turnVars, isRecording, recorder, useLiveMode, liveSessionRef,
                   inputAudioContextRef, outputAudioContextRef, audioContexts, closeErrors, audioVars, call, storeVars>>

\* liveSessionRef.current.then(s => s.close())
ThenClose(sess) ==
    IF sess.state = "connecting" THEN [sess EXCEPT !.thens = Append(@, CloseThen)]
    ELSE IF sess.state \in {"open", "closed"} THEN CloseSession(sess)
    ELSE sess

\* inputAudioContextRef.current?.close() and outputAudioContextRef.current?.close()
CloseContexts(ctxs) ==
    [c \in DOMAIN ctxs |->
        [input  |-> IF c = inputAudioContextRef THEN "closed" ELSE ctxs[c].input,
         output |-> IF c = outputAudioContextRef THEN "closed" ELSE ctxs[c].output,
         born   |-> ctxs[c].born,
         closedAt |-> IF c = outputAudioContextRef /\ ctxs[c].output = "running"
                      THEN now ELSE ctxs[c].closedAt]]

\* close() called on an object that is closed already.
CloseErrorsOfStop ==
    (IF liveSessionRef # 0 /\ sessions[liveSessionRef].state = "closed"
     THEN {"session"} ELSE {})
    \cup (IF inputAudioContextRef # 0 /\ audioContexts[inputAudioContextRef].input = "closed"
          THEN {"inputAudioContext"} ELSE {})
    \cup (IF outputAudioContextRef # 0
             /\ audioContexts[outputAudioContextRef].output = "closed"
          THEN {"outputAudioContext"} ELSE {})

\* stopLiveSession
StopLiveSession ==
    /\ sessions' = IF liveSessionRef # 0
                   THEN [sessions EXCEPT ![liveSessionRef] = ThenClose(@)]
                   ELSE sessions
    /\ liveSessionRef' = 0
    /\ audioContexts' = CloseContexts(audioContexts)
    /\ closeErrors' = closeErrors \cup CloseErrorsOfStop
    /\ UNCHANGED <<inputAudioContextRef, outputAudioContextRef, audioVars>>

\* handleClick in live mode with isRecording true -> handleLiveToggle(false).
StopLiveClick ==
    /\ useLiveMode
    /\ isRecording
    /\ isRecording' = FALSE
    /\ StopLiveSession
    /\ UNCHANGED <<turnVars, recorder, useLiveMode, call, storeVars>>

\* The administrator toggles live mode; loadAndSync picks the setting up.
ToggleLiveMode ==
    /\ useLiveMode' = ~useLiveMode
    /\ isRecording' = IF useLiveMode /\ isLoading /\ isRecording THEN FALSE ELSE isRecording
    /\ UNCHANGED <<turnVars, recorder, liveSessionRef, inputAudioContextRef,
                   outputAudioContextRef, sessions, audioContexts, closeErrors, audioVars, call, storeVars>>

\* The live specification: the chat is idle (no turn in flight), the voice
\* button and the live session run.
LiveNext ==
    \/ ToggleLiveMode
    \/ StartLiveSession
    \/ \E k \in 1..MaxSessions, created \in BOOLEAN : MediaGranted(k, created)
    \/ \E k \in 1..MaxSessions : MediaDenied(k)
    \/ \E k \in 1..MaxSessions : Connected(k)
    \/ \E k \in 1..MaxSessions : ConnectFailed(k)
    \/ \E k \in 1..MaxSessions : RemoteClose(k)
    \/ \E k \in 1..MaxSessions : OnAudioProcess(k)
    \/ StopLiveClick
    \/ StartRecording /\ UNCHANGED <<liveVars, call, storeVars>>

LiveSpec == Init /\ [][LiveNext]_vars

----------------------------------------------------------------------------
(* Retrieval: cosineSimilarity, findBestMatches and their callers *)

\* A chunk of the corpus.  has = FALSE: the record has no embedding field;
\* handleFileUpload stores the empty vector for a text whose embedding failed.
Chunk(id, has, embedding) == [id |-> id, has |-> has, embedding |-> embedding]

\* Math.sqrt.  The vectors of the model have integer magnitudes, so that the
\* quotient the code computes in floating point is the exact quotient: two
\* scores are equal as doubles exactly when they are equal as fractions.
Sqrt(n) == CHOOSE r \in 0..n : r * r = n

\* vec.reduce((sum, a) => sum + a * a, 0)
RECURSIVE SumSquares(_)
SumSquares(vec) ==
    IF Len(vec) = 0 THEN 0 ELSE vec[1] * vec[1] + SumSquares(Tail(vec))

\* vecA.reduce((sum, a, i) => sum + a * vecB[i], 0) where every vecB[i] read
\* exists: it runs over the indices of vecA only.
RECURSIVE DotProduct(_, _)
DotProduct(vecA, vecB) ==
    IF Len(vecA) = 0 THEN 0
    ELSE vecA[1] * vecB[1] + DotProduct(Tail(vecA), Tail(vecB))

\* A score is NaN or the fraction num / den with den > 0.
NaN == [nan |-> TRUE, num |-> 0, den |-> 1]
Number(num, den) == [nan |-> FALSE, num |-> num, den |-> den]
MinusOne == Number(-1, 1)

\* cosineSimilarity(vecA, vecB).  vecB[i] is undefined past the end of vecB
\* and a * undefined is NaN; 0 / 0 is NaN.
CosineSimilarity(vecA, vecB) ==
    IF Len(vecA) > Len(vecB) THEN NaN
    ELSE LET magnitudes == Sqrt(SumSquares(vecA)) * Sqrt(SumSquares(vecB))
         IN IF magnitudes = 0 THEN NaN
            ELSE Number(DotProduct(vecA, vecB), magnitudes)

\* chunk.embedding ? cosineSimilarity(queryEmbedding, chunk.embedding) : -1
\* An array, the empty one included, is truthy.
Score(queryEmbedding, chunk) ==
    IF chunk.has THEN CosineSimilarity(queryEmbedding, chunk.embedding) ELSE MinusOne

\* The comparator (a, b) => b.score - a.score: "NaN", or the sign of the
\* difference.
CompareAscending(a, b) ==
    IF a.nan \/ b.nan THEN "NaN"
    ELSE LET d == a.num * b.den - b.num * a.den
         IN IF d < 0 THEN -1 ELSE IF d > 0 THEN 1 ELSE 0

CompareFn(a, b) ==
    IF a.nan \/ b.nan THEN "NaN"
    ELSE LET d == b.num * a.den - a.num * b.den
         IN IF d < 0 THEN -1 ELSE IF d > 0 THEN 1 ELSE 0

\* Array.prototype.sort(comparefn) on scores: the orders it may leave the
\* indices 1..Len(scores) in.  With a consistent comparator the sort is stable
\* and has one outcome; a comparator that returns NaN is not consistent and
\* the order is then implementation-defined.
SortOutcomes(scores) ==
    LET n == Len(scores)
        consistent == \A i \in 1..n : ~scores[i].nan
    IN { p \in Permutations(1..n) :
           consistent =>
             \A i, j \in 1..n :
               i < j => LET c == CompareFn(scores[p[i]], scores[p[j]])
                        IN c = -1 \/ (c = 0 /\ p[i] < p[j]) }

\* findBestMatches(queryEmbedding, chunks, topK), topK >= 0: the results it
\* may return.
FindBestMatches(queryEmbedding, chunks, topK) ==
    LET scores == [i \in 1..Len(chunks) |-> Score(queryEmbedding, chunks[i])]
    IN { [i \in 1..Min(topK, Len(chunks)) |-> chunks[p[i]]] : p \in SortOutcomes(scores) }

\* topK of processQuery, of handleSend's report and of the live tool call.
QueryTopK == 5
ReportTopK == 8
ToolTopK == 3

\* What a retrieval did: whether it called findBestMatches, and its match set.
Retrieved(invoked, matches) == [invoked |-> invoked, matches |-> matches]

\* processQuery and handleSend: queryEmbedding.length > 0 &&
\* queryEmbedding[0].length > 0 ? findBestMatches(queryEmbedding[0], allChunks, topK) : []
RelevantChunks(queryEmbedding, allChunks, topK) ==
    IF Len(queryEmbedding) > 0 /\ Len(queryEmbedding[1]) > 0
    THEN { Retrieved(TRUE, m) : m \in FindBestMatches(queryEmbedding[1], allChunks, topK) }
    ELSE { Retrieved(FALSE, <<>>) }

\* The live tool call: findBestMatches(embeddings[0], chunks, 3)
ToolMatches(embeddings, chunks) ==
    { Retrieved(TRUE, m) : m \in FindBestMatches(embeddings[1], chunks, ToolTopK) }

\* The retrieval of each path, on the result of getEmbeddings([query]).
Retrieval(path, embeddings, chunks) ==
    IF path = "query" THEN RelevantChunks(embeddings, chunks, QueryTopK)
    ELSE IF path = "report" THEN RelevantChunks(embeddings, chunks, ReportTopK)
    ELSE ToolMatches(embeddings, chunks)

\* Embeddings of the model: two axes, an opposite, an oblique vector, a
\* vector of another length, the empty vector.
Vectors == { <<1, 0>>, <<0, 1>>, <<-1, 0>>, <<3, 4>>, <<1>>, <<>> }

QueryVectors == { <<1, 0>>, <<3, 4>>, <<1>>, <<>> }

ChunkEmbeddings ==
    { [has |-> TRUE, embedding |-> v] : v \in Vectors }
      \cup { [has |-> FALSE, embedding |-> <<>>] }

Corpora ==
    UNION { { [i \in 1..n |-> Chunk(i, f[i].has, f[i].embedding)] :
                f \in [1..n -> ChunkEmbeddings] } : n \in 0..MaxChunks }

RetrievalPaths == { "query", "report", "tool" }

\* A call of findBestMatches on a query vector.
MatchCall(q, chunks, topK) ==
    [fn |-> "findBestMatches", queryEmbedding |-> q, chunks |-> chunks, topK |-> topK,
     returned |-> FALSE, threw |-> FALSE, result |-> <<>>]

\* The retrieval of a path on what getEmbeddings([query]) returned.
RetrievalCall(path, q, chunks) ==
    [fn |-> "retrieval", path |-> path, embeddings |-> << q >>, chunks |-> chunks,
     returned |-> FALSE, result |-> Retrieved(FALSE, <<>>)]

InitRetrieval ==
    /\ InitProgram
    /\ \E q \in QueryVectors, chunks \in Corpora :
         \/ \E topK \in 0..MaxChunks : call = MatchCall(q, chunks, topK)
         \/ \E path \in RetrievalPaths : call = RetrievalCall(path, q, chunks)

\* findBestMatches returns.  Nothing in it throws: arithmetic on numbers and
\* on undefined yields numbers or NaN.
ReturnMatches ==
    /\ call.fn = "findBestMatches"
    /\ ~call.returned
    /\ \E r \in FindBestMatches(call.queryEmbedding, call.chunks, call.topK) :
         call' = [call EXCEPT !.returned = TRUE, !.threw = FALSE, !.result = r]
    /\ UNCHANGED programVars

\* The retrieval of a path returns.
ReturnRetrieval ==
    /\ call.fn = "retrieval"
    /\ ~call.returned
    /\ \E r \in Retrieval(call.path, call.embeddings, call.chunks) :
         call' = [call EXCEPT !.returned = TRUE, !.result = r]
    /\ UNCHANGED programVars

RetrievalNext ==
    \/ ReturnMatches
    \/ ReturnRetrieval

RetrievalSpec == InitRetrieval /\ [][RetrievalNext]_vars

----------------------------------------------------------------------------
(* The inbound side of a live session: playback and tool calls.  It uses the
   retrieval defined above. *)

MaxTime == 2
MaxDuration == 2
MaxCalls == 2

Max(a, b) == IF a > b THEN a ELSE b

\* ctx.currentTime of the output context of pair c.
CurrentTime(c) ==
    (IF audioContexts[c].output = "closed" THEN audioContexts[c].closedAt ELSE now)
      - audioContexts[c].born

\* Time passes.
Tick ==
    /\ now < MaxTime
    /\ now' = now + 1
    /\ UNCHANGED <<turnVars, isRecording, recorder, useLiveMode, liveSessionRef,
                   inputAudioContextRef, outputAudioContextRef, sessions, audioContexts,
                   closeErrors, nextStartTimeRef, playback, handlers, call, storeVars>>

\* A frame scheduled by onAudioData: the session it came from, the output
\* context it was started on, its start on that context's clock and its
\* duration; history: the wall-clock time of the call, whether that context
\* was running, and how many tool calls were awaiting their embedding then.
Scheduled(k, start, duration) ==
    [session |-> k, ctx |-> outputAudioContextRef, start |-> start, duration |-> duration,
     at |-> now, audible |-> audioContexts[outputAudioContextRef].output = "running",
     awaiting |-> Len(handlers)]

\* onAudioData(base64) of session k, for a frame of the given duration: the
\* cursor and the frames scheduled after the call.
OnAudioData(k, duration) ==
    IF outputAudioContextRef = 0
    THEN [cursor |-> nextStartTimeRef, frames |-> playback]
    ELSE LET start == Max(nextStartTimeRef, CurrentTime(outputAudioContextRef))
         IN [cursor |-> start + duration,
             frames |-> Append(playback, Scheduled(k, start, duration))]

ToolName == "search_knowledge_base"

\* The function calls of one message: names[i] with the next identifiers of
\* the session.
FunctionCalls(k, names) ==
    [i \in 1..Len(names) |-> [id |-> sessions[k].issued + i, name |-> names[i]]]

\* The for loop of onmessage over the calls from index i on, up to its next
\* await of getEmbeddings (a handler suspended at calls[i]) or to its end
\* (no handler).
RECURSIVE ToolLoop(_, _, _)
ToolLoop(k, calls, i) ==
    IF i > Len(calls) THEN <<>>
    ELSE IF calls[i].name = ToolName
    THEN << [session |-> k, calls |-> calls, i |-> i,
             sentBefore |-> Len(sessions[k].received)] >>
    ELSE ToolLoop(k, calls, i + 1)

\* The function calls all sessions have sent so far.
RECURSIVE IssuedSoFar(_)
IssuedSoFar(ss) == IF Len(ss) = 0 THEN 0 ELSE ss[1].issued + IssuedSoFar(Tail(ss))

\* Callbacks are invoked for each message of an open session as it arrives,
\* whether or not earlier invocations are suspended.
DeliverableWhenIdle(k) ==
    /\ sessions[k].state = "open"
    /\ \A h \in 1..Len(handlers) : handlers[h].session # k

Deliverable(k) == sessions[k].state = "open"

\* onmessage(message) up to its first await: a message with an audio part of
\* the given duration (0: none) and a toolCall with the named function calls.
OnMessage(k, duration, names) ==
    /\ k \in 1..Len(sessions)
    /\ Deliverable(k)
    /\ duration > 0 \/ Len(names) > 0
    /\ duration > 0 => Len(playback) < MaxFrames
    /\ IssuedSoFar(sessions) + Len(names) <= MaxCalls
    /\ nextStartTimeRef' = IF duration > 0 THEN OnAudioData(k, duration).cursor
                           ELSE nextStartTimeRef
    /\ playback' = IF duration > 0 THEN OnAudioData(k, duration).frames ELSE playback
    /\ handlers' = handlers \o ToolLoop(k, FunctionCalls(k, names), 1)
    /\ sessions' = [sessions EXCEPT ![k].issued = @ + Len(names)]
    /\ UNCHANGED <<turnVars, isRecording, recorder, useLiveMode, liveSessionRef,
                   inputAudioContextRef, outputAudioContextRef, audioContexts,
                   closeErrors, now, call, storeVars>>

\* The chunks the tool call searches.
ToolCorpus == << Chunk(1, TRUE, <<0, 1>>), Chunk(2, TRUE, <<1, 0>>) >>

\* What getEmbeddings([query]) returns to the tool call.
ToolEmbeddings == { << <<1, 0>> >>, << <<>> >> }

\* functionResponses of sendToolResponse.
ToolResponseToFirst(fc, matches) ==
    [id |-> 1, name |-> fc.name, result |-> [i \in 1..Len(matches) |-> matches[i].id]]

ToolResponse(fc, matches) ==
    [id |-> fc.id, name |-> fc.name, result |-> [i \in 1..Len(matches) |-> matches[i].id]]

\* sessionPromise.then(session => session.sendToolResponse(...)): the promise
\* of a session that delivered a message is resolved.
SendToolResponse(sess, response) ==
    [sess EXCEPT !.toolResponses =
       Append(@, [functionResponses |-> response, open |-> sess.state = "open"])]

\* The handler after calls[i] is done: suspended at the next search call, or gone.
HandlersAfter(h) ==
    SubSeq(handlers, 1, h - 1)
      \o ToolLoop(handlers[h].session, handlers[h].calls, handlers[h].i + 1)
      \o SubSeq(handlers, h + 1, Len(handlers))

\* onmessage after getEmbeddings resolved: the search runs, the response is
\* sent into the session of the handler, the loop goes on.
ToolEmbedded(h, embeddings) ==
    /\ h \in 1..Len(handlers)
    /\ \E r \in ToolMatches(embeddings, ToolCorpus) :
         sessions' = [sessions EXCEPT ![handlers[h].session] =
                        SendToolResponse(@, ToolResponse(handlers[h].calls[handlers[h].i],
                                                         r.matches))]
    /\ handlers' = HandlersAfter(h)
    /\ UNCHANGED <<turnVars, isRecording, recorder, useLiveMode, liveSessionRef,
                   inputAudioContextRef, outputAudioContextRef, audioContexts,
                   closeErrors, nextStartTimeRef, now, playback, call, storeVars>>

\* The search throws (mockDB.getChunks on unreadable storage): the catch logs,
\* no response is sent, the loop goes on.
ToolRetrievalThrew(h) ==
    /\ h \in 1..Len(handlers)
    /\ handlers' = HandlersAfter(h)
    /\ UNCHANGED <<turnVars, isRecording, recorder, useLiveMode, liveSessionRef,
                   inputAudioContextRef, outputAudioContextRef, sessions, audioContexts,
                   closeErrors, nextStartTimeRef, now, playback, call, storeVars>>

\* The names a toolCall may carry.
CallNames == { <<>>, << ToolName >>, << "other" >>, << ToolName, ToolName >> }

\* The tool specification: live sessions started and stopped, with the tool
\* calls of their inbound messages, whose embedding succeeds; no audio flows
\* and the chat is idle.
ToolNext ==
    \/ StartLiveSession
    \/ \E k \in 1..MaxSessions : MediaGranted(k, TRUE)
    \/ \E k \in 1..MaxSessions : Connected(k)
    \/ \E k \in 1..MaxSessions : RemoteClose(k)
    \/ \E k \in 1..MaxSessions, names \in CallNames : OnMessage(k, 0, names)
    \/ \E h \in 1..MaxCalls : ToolEmbedded(h, << <<1, 0>> >>)
    \/ \E h \in 1..MaxCalls : ToolRetrievalThrew(h)
    \/ StopLiveClick

ToolSpec == InitLiveMode /\ [][ToolNext]_vars

\* The streaming specification: one live session with its inbound audio, its
\* tool calls and its outbound frames; the chat is idle.
StreamNext ==
    \/ StartLiveSession
    \/ \E k \in 1..MaxSessions : MediaGranted(k, TRUE)
    \/ \E k \in 1..MaxSessions : Connected(k)
    \/ \E k \in 1..MaxSessions, d \in 0..1, names \in CallNames : OnMessage(k, d, names)
    \/ \E h \in 1..MaxCalls, e \in ToolEmbeddings : ToolEmbedded(h, e)
    \/ \E k \in 1..MaxSessions : OnAudioProcess(k)

StreamSpec == InitLiveMode /\ [][StreamNext]_vars

\* The question typed while a live session is left running.

\* The playback specification: live sessions with their inbound audio and the
\* clock, and the typed turns of the chat while live mode is switched off.
PlaybackNext ==
    \/ ToggleLiveMode
    \/ StartLiveSession
    \/ \E k \in 1..MaxSessions : MediaGranted(k, TRUE)
    \/ \E k \in 1..MaxSessions : Connected(k)
    \/ \E k \in 1..MaxSessions, d \in 1..MaxDuration : OnMessage(k, d, <<>>)
    \/ Tick
    \/ StopLiveClick
    \/ (SetInput(LiveQuery) \/ HandleSend
          \/ (\E i \in 1..MaxTasks : Embedded(i, "vector"))
          \/ (\E i \in 1..MaxTasks, t \in ResponseTexts : Generated(i, t)))
       /\ UNCHANGED <<liveVars, call, storeVars>>

PlaybackSpec == Init /\ [][PlaybackNext]_vars

----------------------------------------------------------------------------
(* pdfService: chunkText *)

CharAt(s, i) == SubSeq(s, i, i)

IsTerminator(c) == c \in {".", "!", "?"}

\* The index after the run of characters from i on that satisfy
\* (terminators = TRUE) or do not satisfy (FALSE) IsTerminator.
RunEnd(s, i, terminators) ==
    LET stops == { j \in i..Len(s) : IsTerminator(CharAt(s, j)) # terminators }
    IN IF stops # {} THEN CHOOSE j \in stops : \A k \in stops : j <= k
       ELSE IF i <= Len(s) THEN Len(s) + 1 ELSE i

\* text.match(/[^.!?]+[.!?]+|\s\n/g) from index i on: at each position the
\* first alternative (greedy) is tried, then the second, else the scan moves
\* on by one character.
RECURSIVE MatchSentences(_, _)
MatchSentences(text, i) ==
    IF i > Len(text) THEN <<>>
    ELSE LET j == RunEnd(text, i, FALSE)
             k == RunEnd(text, j, TRUE)
         IN IF j > i /\ k > j
            THEN << SubSeq(text, i, k - 1) >> \o MatchSentences(text, k)
            ELSE IF i < Len(text) /\ IsSpace(CharAt(text, i)) /\ CharAt(text, i + 1) = "\n"
            THEN << SubSeq(text, i, i + 1) >> \o MatchSentences(text, i + 2)
            ELSE MatchSentences(text, i + 1)

\* text.match(...) || [text]
Sentences(text) ==
    IF MatchSentences(text, 1) = <<>> THEN << text >> ELSE MatchSentences(text, 1)

\* The for loop of chunkText over the sentences left, then the last push.
RECURSIVE ChunkLoop(_, _, _, _)
ChunkLoop(sentences, currentChunk, chunks, chunkSize) ==
    IF Len(sentences) = 0
    THEN IF Trim(currentChunk) # "" THEN Append(chunks, Trim(currentChunk)) ELSE chunks
    ELSE IF Len(currentChunk \o sentences[1]) > chunkSize
         THEN ChunkLoop(Tail(sentences), sentences[1],
                        Append(chunks, Trim(currentChunk)), chunkSize)
         ELSE ChunkLoop(Tail(sentences), currentChunk \o sentences[1], chunks, chunkSize)

\* chunkText(text, chunkSize)
ChunkText(text, chunkSize) ==
    SelectSeq(ChunkLoop(Sentences(text), "", <<>>, chunkSize), LAMBDA c : Len(c) > 0)

DefaultChunkSize == 500
SmallChunkSize == 3
MaxTextLen == 4

Alphabet == { "a", ".", " ", "\n" }

\* Every text over the alphabet of at most n characters.
RECURSIVE TextsUpTo(_)
TextsUpTo(n) ==
    IF n = 0 THEN { "" }
    ELSE LET shorter == TextsUpTo(n - 1)
         IN shorter \cup { t \o c : t \in shorter, c \in Alphabet }

ChunkCalls ==
    { [fn |-> "chunkText", text |-> text, chunkSize |-> chunkSize,
       returned |-> FALSE, result |-> <<>>] :
         text \in TextsUpTo(MaxTextLen), chunkSize \in {SmallChunkSize, DefaultChunkSize} }

InitChunk == InitProgram /\ call \in ChunkCalls

ReturnChunks ==
    /\ call.fn = "chunkText"
    /\ ~call.returned
    /\ call' = [call EXCEPT !.returned = TRUE,
                            !.result = ChunkText(call.text, call.chunkSize)]
    /\ UNCHANGED programVars

ChunkNext == ReturnChunks

ChunkSpec == InitChunk /\ [][ChunkNext]_vars

----------------------------------------------------------------------------
(* geminiService: getEmbeddings *)

\* !text || !text.trim()
IsEmptyText(text) == text = ""

IsBlank(text) == text = "" \/ Trim(text) = ""

\* The vector the embedding service computes for a text.
EmbedContent(text) == << Len(text), 1 >>

\* How the remote call for one text may end: the response carries
\* embedding.values, the response carries none, the call throws.
EmbedOutcomes == { "values", "novalues", "throws" }

\* The for loop of getEmbeddings from the state c on, up to its next await
\* (c.awaiting = TRUE: embedContent was called for texts[c.i]) or to its return.
\*   embeddings:  the vectors pushed so far
\*   remoteCalls: history, the texts embedContent was called with
\*   outcomes:    history, how the remote call of each text ended ("none":
\*                no call was made)
RECURSIVE EmbedLoop(_)
EmbedLoop(c) ==
    IF c.i > Len(c.texts) THEN [c EXCEPT !.returned = TRUE]
    ELSE IF IsBlank(c.texts[c.i])
    THEN EmbedLoop([c EXCEPT !.embeddings = Append(@, <<>>),
                             !.outcomes = Append(@, "none"),
                             !.i = @ + 1])
    ELSE [c EXCEPT !.awaiting = TRUE, !.remoteCalls = Append(@, c.texts[c.i])]

\* getEmbeddings(texts) up to its first await or its return.
GetEmbeddings(texts) ==
    EmbedLoop([fn |-> "getEmbeddings", texts |-> texts, i |-> 1, embeddings |-> <<>>,
               remoteCalls |-> <<>>, outcomes |-> <<>>, awaiting |-> FALSE,
               returned |-> FALSE])

MaxTexts == 3

EmbedTexts == { "", "  ", "a", "bc" }

EmbedCalls ==
    { GetEmbeddings(texts) : texts \in UNION { [1..n -> EmbedTexts] : n \in 0..MaxTexts } }

InitEmbed == InitProgram /\ call \in EmbedCalls

\* The remote call for texts[i] ended: the vector or [] is pushed and the
\* loop goes on.
EmbedContentEnded(outcome) ==
    /\ call.fn = "getEmbeddings"
    /\ call.awaiting
    /\ call' = EmbedLoop([call EXCEPT
                            !.awaiting = FALSE,
                            !.embeddings = Append(@, IF outcome = "values"
                                                     THEN EmbedContent(call.texts[call.i])
                                                     ELSE <<>>),
                            !.outcomes = Append(@, outcome),
                            !.i = @ + 1])
    /\ UNCHANGED programVars

EmbedNext == \E outcome \in EmbedOutcomes : EmbedContentEnded(outcome)

EmbedSpec == InitEmbed /\ [][EmbedNext]_vars

----------------------------------------------------------------------------
(* mockDB: the Knowledge Store and the audit log *)

\* "Keep last 100 logs"
LogLimit == 100

\* logAction's update of the stored list: pop when it is longer than the
\* limit, then unshift the new entry.
LogAction(logs, timestamp) ==
    << AuditLog(timestamp) >>
    \o (IF Len(logs) > LogLimit THEN SubSeq(logs, 1, Len(logs) - 1) ELSE logs)

\* addDocument: docs.push(doc)
AddDocument(docs, doc) == Append(docs, doc)

\* addChunks: chunks.push(...newChunks)
AddChunks(chunks, newChunks) == chunks \o newChunks

\* The chunks of every document kept.
KeepChunks(chunks, id) == chunks

\* deleteDocument: docs.filter(d => d.id !== id)
FilterDocs(docs, id) == SelectSeq(docs, LAMBDA d : d.id # id)

\* deleteDocument: chunks.filter(c => c.docId !== id)
FilterChunks(chunks, id) == SelectSeq(chunks, LAMBDA c : c.docId # id)

\* updateChunk: findIndex, and the replacement when the id is found.
UpdateChunk(chunks, updatedChunk) ==
    LET found == { i \in 1..Len(chunks) : chunks[i].id = updatedChunk.id }
    IN IF found = {} THEN chunks
       ELSE [chunks EXCEPT ![CHOOSE i \in found : \A j \in found : i <= j] = updatedChunk]

----------------------------------------------------------------------------
(* AdminPanel: ingestion, deletion, passage edit *)

MaxDate == 3
MaxLogTime == 110

\* String.prototype.repeat
RECURSIVE Repeat(_, _)
Repeat(str, n) ==
    IF n = 0 THEN ""
    ELSE LET half == Repeat(str, n \div 2)
         IN half \o half \o (IF n % 2 = 1 THEN str ELSE "")

\* A sentence of 300 characters: two of them exceed the default chunk size.
LongSentence == Repeat("a", 299) \o "."

\* What extractTextFromPdf returns (every page ends with "\n"): an empty page,
\* a short passage, a text of two chunks.
PdfTexts == { "\n", "Short passage.\n", LongSentence \o LongSentence \o "\n" }

\* The files the administrator chooses; file.type of each.
Files == { "a.pdf", "notes.txt" }

FileType(file) == IF file = "notes.txt" THEN "text/plain" ELSE "application/pdf"

\* What getEmbeddings(textChunks) returns: one vector per text, the empty
\* vector for a blank text and for the texts whose remote call failed.
Embeddings(textChunks, failed) ==
    [i \in 1..Len(textChunks) |->
        IF IsBlank(textChunks[i]) \/ i \in failed THEN <<>> ELSE EmbedContent(textChunks[i])]

\* `doc-${Date.now()}`
DocId(timestamp) == "doc-" \o ToString(timestamp)

\* textChunks.map((t, i) => ({ id, docId, docTitle, text, embedding: embeddings[i] || [] }))
ChunksWithEmbeddings(docId, file, textChunks, embeddings) ==
    [i \in 1..Len(textChunks) |->
        DocumentChunk(docId \o "-chunk-" \o ToString(i - 1), docId, file,
                      textChunks[i], embeddings[i])]

\* handleFileUpload up to its first await (extractTextFromPdf).  The file
\* input is disabled while an upload is in progress.
HandleFileUpload(file) ==
    /\ Len(uploads) = 0
    /\ FileType(file) = "application/pdf"
    /\ uploads' = << [file |-> file, stage |-> "extracting", textChunks |-> <<>>] >>
    /\ UNCHANGED <<storedDocs, storedChunks, storedLogs, dateNow>>
    /\ UNCHANGED <<turnVars, isRecording, recorder, liveVars, call>>

\* extractTextFromPdf resolved: chunkText, then the await of getEmbeddings.
Extracted(text) ==
    /\ Len(uploads) = 1
    /\ uploads[1].stage = "extracting"
    /\ uploads' = << [uploads[1] EXCEPT !.stage = "embedding",
                                        !.textChunks = ChunkText(text, DefaultChunkSize)] >>
    /\ UNCHANGED <<storedDocs, storedChunks, storedLogs, dateNow>>
    /\ UNCHANGED <<turnVars, isRecording, recorder, liveVars, call>>

\* extractTextFromPdf rejected: the catch of handleFileUpload.
ExtractFailed ==
    /\ Len(uploads) = 1
    /\ uploads[1].stage = "extracting"
    /\ uploads' = <<>>
    /\ UNCHANGED <<storedDocs, storedChunks, storedLogs, dateNow>>
    /\ UNCHANGED <<turnVars, isRecording, recorder, liveVars, call>>

\* Where localStorage.setItem throws QuotaExceededError during the two writes
\* of an ingestion: nowhere, on the document list, on the chunk list (the
\* list that carries the embeddings).
QuotaOutcomes == { "none", "docs", "chunks" }

\* handleFileUpload after getEmbeddings resolved: mockDB.addDocument (which
\* logs the upload), then mockDB.addChunks; a setItem that throws ends the
\* handler in its catch, with whatever was written before.
Ingested(failed, quota) ==
    /\ Len(uploads) = 1
    /\ uploads[1].stage = "embedding"
    /\ failed \subseteq 1..Len(uploads[1].textChunks)
    /\ dateNow < MaxDate
    /\ dateNow' = dateNow + 1
    /\ LET file == uploads[1].file
           textChunks == uploads[1].textChunks
           docId == DocId(dateNow')
           newDoc == UploadedDocument(docId, file, Len(textChunks))
           newChunks == ChunksWithEmbeddings(docId, file, textChunks,
                                             Embeddings(textChunks, failed))
       IN /\ storedDocs' = IF quota = "docs" THEN storedDocs
                           ELSE AddDocument(storedDocs, newDoc)
          /\ storedLogs' = IF quota = "docs" THEN storedLogs
                           ELSE LogAction(storedLogs, dateNow')
          /\ storedChunks' = IF quota = "none" THEN AddChunks(storedChunks, newChunks)
                             ELSE storedChunks
    /\ uploads' = <<>>
    /\ UNCHANGED <<turnVars, isRecording, recorder, liveVars, call>>

\* The ids a document list on screen may show: the seed and every upload.
DocIds == { "seed-1" } \cup { DocId(t) : t \in 2..MaxDate }

\* handleDelete -> mockDB.deleteDocument(id), on a document of the list on
\* screen (which another tab may have deleted already).
DeleteDocument(id) ==
    /\ dateNow < MaxDate
    /\ storedDocs' = FilterDocs(storedDocs, id)
    /\ storedChunks' = FilterChunks(storedChunks, id)
    /\ IF \E i \in 1..Len(storedDocs) : storedDocs[i].id = id
       THEN /\ dateNow' = dateNow + 1
            /\ storedLogs' = LogAction(storedLogs, dateNow')
       ELSE UNCHANGED <<storedLogs, dateNow>>
    /\ UNCHANGED uploads
    /\ UNCHANGED <<turnVars, isRecording, recorder, liveVars, call>>

\* What the administrator enters in the prompt of Edit Text.
EditTexts == { "Corrected passage of another length." }

\* The Edit Text button of the passage editor, on a stored chunk:
\* mockDB.updateChunk({ ...chunk, text: newText }) when the prompt returned a text.
EditText(i, newText) ==
    /\ i \in 1..Len(storedChunks)
    /\ newText # ""
    /\ storedChunks' = UpdateChunk(storedChunks, [storedChunks[i] EXCEPT !.text = newText])
    /\ UNCHANGED <<storedDocs, storedLogs, uploads, dateNow>>
    /\ UNCHANGED <<turnVars, isRecording, recorder, liveVars, call>>

\* The module is loaded (a tab is opened or reloaded): the seed document and
\* its chunk are stored when no document is.
ModuleLoaded ==
    /\ dateNow < MaxDate
    /\ Len(storedDocs) = 0
    /\ dateNow' = dateNow + 1
    /\ storedDocs' = AddDocument(storedDocs, UploadedDocument("seed-1", SeedTitle, 1))
    /\ storedLogs' = LogAction(storedLogs, dateNow')
    /\ storedChunks' = AddChunks(storedChunks,
                                 << DocumentChunk("chunk-1", "seed-1", SeedTitle, SeedText,
                                                  SeedEmbedding) >>)
    /\ UNCHANGED uploads
    /\ UNCHANGED <<turnVars, isRecording, recorder, liveVars, call>>

StoreNext ==
    \/ \E file \in Files : HandleFileUpload(file)
    \/ \E text \in PdfTexts : Extracted(text)
    \/ ExtractFailed
    \/ \E failed \in { {}, {1} }, quota \in QuotaOutcomes : Ingested(failed, quota)
    \/ \E id \in DocIds : DeleteDocument(id)
    \/ \E i \in 1..(2 * MaxDate), newText \in EditTexts : EditText(i, newText)
    \/ ModuleLoaded

StoreSpec == Init /\ [][StoreNext]_vars

\* mockDB.saveSettings: the settings are written and the action is logged.
\* (Of the stored settings the model keeps useLiveMode, as the chat polls it.)
SaveSettings ==
    /\ dateNow < MaxLogTime
    /\ dateNow' = dateNow + 1
    /\ storedLogs' = LogAction(storedLogs, dateNow')
    /\ UNCHANGED <<storedDocs, storedChunks, uploads>>
    /\ UNCHANGED <<turnVars, isRecording, recorder, liveVars, call>>

\* handleReviewAction -> mockDB.updateReview: the review is written and the
\* action is logged.
UpdateReview ==
    /\ dateNow < MaxLogTime
    /\ dateNow' = dateNow + 1
    /\ storedLogs' = LogAction(storedLogs, dateNow')
    /\ UNCHANGED <<storedDocs, storedChunks, uploads>>
    /\ UNCHANGED <<turnVars, isRecording, recorder, liveVars, call>>

LogNext ==
    \/ SaveSettings
    \/ UpdateReview

LogSpec == Init /\ [][LogNext]_vars

----------------------------------------------------------------------------
(* geminiService: generateRAGResponse, and the answer processQuery builds *)

\* A grounding chunk of the response.  web: it has a web part; uri and title
\* are "" when the field is missing (a missing and an empty string are both
\* falsy).
GroundingChunk(web, uri, title) == [web |-> web, uri |-> uri, title |-> title]

\* How ai.models.generateContent may end: it throws, or it resolves with a
\* response (text "" when response.text is undefined; hasGrounding = FALSE
\* when the candidate has no groundingMetadata.groundingChunks).
Throws == [kind |-> "throws", text |-> "", hasGrounding |-> FALSE, groundingChunks |-> <<>>]

Response(text, hasGrounding, groundingChunks) ==
    [kind |-> "response", text |-> text, hasGrounding |-> hasGrounding,
     groundingChunks |-> groundingChunks]

\* groundingChunks.forEach(c => { if (c.web?.uri) webCitations.push(c.web.title || c.web.uri) })
RECURSIVE WebCitations(_)
WebCitations(groundingChunks) ==
    IF Len(groundingChunks) = 0 THEN <<>>
    ELSE LET c == groundingChunks[1]
         IN (IF c.web /\ c.uri # "" THEN << IF c.title # "" THEN c.title ELSE c.uri >>
             ELSE <<>>)
            \o WebCitations(Tail(groundingChunks))

NoResponseText == "No response generated."

\* The optional citations field of the result.
Undefined == [defined |-> FALSE, list |-> <<>>]
Defined(list) == [defined |-> TRUE, list |-> list]

\* The catch block rethrowing instead of returning.
GenerateRAGResponseRethrowing(query, contextChunks, outcome) ==
    IF outcome.kind = "throws"
    THEN [threw |-> TRUE, text |-> "", language |-> "", citations |-> Undefined]
    ELSE [threw |-> FALSE, text |-> outcome.text, language |-> "Detected",
          citations |-> Undefined]

\* generateRAGResponse(query, contextChunks), given how generateContent ends.
\* The prompt it builds from its arguments has no part in what it returns.
GenerateRAGResponse(query, contextChunks, outcome) ==
    IF outcome.kind = "throws"
    THEN [threw |-> FALSE, text |-> GenerationErrorText, language |-> "Error",
          citations |-> Undefined]
    ELSE LET webCitations == IF outcome.hasGrounding
                             THEN WebCitations(outcome.groundingChunks) ELSE <<>>
         IN [threw |-> FALSE,
             text |-> IF outcome.text # "" THEN outcome.text ELSE NoResponseText,
             language |-> "Detected",
             citations |-> IF Len(webCitations) > 0 THEN Defined(webCitations)
                           ELSE Undefined]

\* relevantChunks.map(c => c.docTitle)
DocTitles(relevantChunks) == [i \in 1..Len(relevantChunks) |-> relevantChunks[i].docTitle]

\* The search citations put before the retrieval citations.
BotMsgSearchFirst(response, relevantChunks) ==
    [role |-> "model", content |-> response.text, language |-> response.language,
     citations |-> (IF response.citations.defined THEN response.citations.list ELSE <<>>)
                   \o DocTitles(relevantChunks)]

\* botMsg of processQuery:
\* citations: [...(relevantChunks.map(c => c.docTitle)), ...(response.citations || [])]
BotMsg(response, relevantChunks) ==
    [role |-> "model", content |-> response.text, language |-> response.language,
     citations |-> DocTitles(relevantChunks)
                   \o (IF response.citations.defined THEN response.citations.list ELSE <<>>)]

\* Grounding chunks of the model: a web source with both fields, one without
\* title, one without uri, a source that is not a web page.
GroundingChunks ==
    { GroundingChunk(TRUE, "https://samastha.info", "Samastha"),
      GroundingChunk(TRUE, "https://example.org/a", ""),
      GroundingChunk(TRUE, "", "Untitled"),
      GroundingChunk(FALSE, "", "") }

MaxGrounding == 2

\* The chunks of the store the answers are drawn from.
TitledChunks ==
    { [title |-> t, embedding |-> e] : t \in { "A.pdf", "B.pdf" },
                                       e \in { <<1, 0>>, <<0, 1>> } }

TitledCorpus(f) ==
    [i \in DOMAIN f |-> DocumentChunk(ToString(i), f[i].title, f[i].title, "passage",
                                      f[i].embedding)]

GenerateCall(query, contextChunks, outcome) ==
    [fn |-> "generateRAGResponse", query |-> query, contextChunks |-> contextChunks,
     outcome |-> outcome, returned |-> FALSE,
     result |-> [threw |-> FALSE, text |-> "", language |-> "", citations |-> Undefined]]

\* processQuery from the point where getEmbeddings([queryText]) has resolved.
AnswerCall(query, queryEmbedding, allChunks, outcome) ==
    [fn |-> "processQuery", query |-> query, queryEmbedding |-> queryEmbedding,
     allChunks |-> allChunks, outcome |-> outcome, returned |-> FALSE,
     relevantChunks |-> <<>>,
     result |-> [role |-> "", content |-> "", language |-> "", citations |-> <<>>]]

InitAnswer ==
    /\ InitProgram
    /\ \E n \in 0..MaxChunks, g \in 0..MaxGrounding :
         \E f \in [1..n -> TitledChunks], gs \in [1..g -> GroundingChunks],
            text \in ResponseTexts \cup {""}, kind \in { "throws", "none", "grounded" },
            q \in { <<1, 0>>, <<>> } :
           LET outcome == IF kind = "throws" THEN Throws
                          ELSE Response(text, kind = "grounded", gs)
           IN /\ kind = "grounded" \/ g = 0
              /\ kind # "throws" \/ text = ""
              /\ \/ call = GenerateCall(LiveQuery, TitledCorpus(f), outcome)
                 \/ call = AnswerCall(LiveQuery, << q >>, TitledCorpus(f), outcome)

\* generateRAGResponse settles.
ReturnResponse ==
    /\ call.fn = "generateRAGResponse"
    /\ ~call.returned
    /\ call' = [call EXCEPT !.returned = TRUE,
                            !.result = GenerateRAGResponse(call.query, call.contextChunks,
                                                           call.outcome)]
    /\ UNCHANGED programVars

\* processQuery: the retrieval, generateRAGResponse, botMsg.
ReturnAnswer ==
    /\ call.fn = "processQuery"
    /\ ~call.returned
    /\ \E r \in RelevantChunks(call.queryEmbedding, call.allChunks, QueryTopK) :
         call' = [call EXCEPT
                    !.returned = TRUE,
                    !.relevantChunks = r.matches,
                    !.result = BotMsg(GenerateRAGResponse(call.query, r.matches, call.outcome),
                                      r.matches)]
    /\ UNCHANGED programVars

AnswerNext ==
    \/ ReturnResponse
    \/ ReturnAnswer

AnswerSpec == InitAnswer /\ [][AnswerNext]_vars

----------------------------------------------------------------------------
(* Properties of the lead-capture dialogue *)

DigitCount(text) == Len(DigitsOnly(text))

QueryTasks(ts) == Len(SelectSeq(ts, LAMBDA t : t.kind = "query"))

\* A step in which processQuery is entered.
ProcessQueryCalled == QueryTasks(tasks') = QueryTasks(tasks) + 1

IsPrefix(s, t) == Len(s) <= Len(t) /\ SubSeq(t, 1, Len(s)) = s

\* C1: while the state is AWAITING_CONTACT no submission, typed or spoken,
\* enters processQuery.
C1_NoQueryWhileAwaitingContact ==
    [][waitingForNumber => ~ProcessQueryCalled]_vars

\* C2: in AWAITING_CONTACT a submission with fewer than 10 or more than 15
\* digits keeps the state, appends exactly the validation-failure message (and
\* no user message) and leaves the stored Leads as they are.
C2_InvalidContactRejected ==
    [][(HandleSend /\ waitingForNumber
          /\ (DigitCount(input) < 10 \/ DigitCount(input) > 15))
       => (/\ waitingForNumber'
           /\ messages' = Append(messages, ModelMsg(InvalidNumberText))
           /\ leads' = leads
           /\ tasks' = tasks)]_vars

C2_Witness ==
    /\ waitingForNumber
    /\ Last(messages) = ModelMsg(InvalidNumberText)
    /\ input = ""

\* C3: in AWAITING_CONTACT a submission with 10 to 15 digits moves the state
\* to NORMAL, appends the raw input as a user message and stores exactly one
\* new Lead whose phoneNumber is the raw input; no step changes or removes a
\* Lead stored earlier.
C3_ValidContactCaptured ==
    [][/\ (HandleSend /\ waitingForNumber /\ DigitCount(input) \in 10..15)
          => (/\ ~waitingForNumber'
              /\ messages' = Append(messages, UserMsg(input, FALSE))
              /\ Len(leads') = Len(leads) + 1
              /\ Last(leads').phoneNumber = input)
       /\ IsPrefix(leads, leads')]_vars

C3_Witness ==
    /\ ~waitingForNumber
    /\ Len(leads) = 2
    /\ leads[2].phoneNumber = "(123) 456-7890"
    /\ Last(messages) = UserMsg("(123) 456-7890", FALSE)

\* A message that asks the user for a contact number.
AsksForContact(m) == m.role = "model" /\ m.content \in {ContactPrompt, InvalidNumberText}

\* C4: NORMAL -> AWAITING_CONTACT is taken only on a last message that is a
\* model message, asks for no contact and carries no report, while nothing is
\* loading; no message is offered on twice.
C4_OneOfferPerModelTurn ==
    /\ [][(~waitingForNumber /\ waitingForNumber')
          => (/\ Len(messages) > 0
              /\ Last(messages).role = "model"
              /\ ~AsksForContact(Last(messages))
              /\ Last(messages).shareContent = ""
              /\ ~isLoading
              /\ offers' = Append(offers, Len(messages)))]_vars
    /\ [](\A i, j \in 1..Len(offers) : offers[i] = offers[j] => i = j)

C4_Witness ==
    /\ waitingForNumber
    /\ Len(offers) = 2
    /\ Last(messages) = ModelMsg(ContactPrompt)

\* The most recent user message of a history.
LastUserQuery(msgs) ==
    LET idx == { i \in 1..Len(msgs) : msgs[i].role = "user" }
    IN msgs[CHOOSE i \in idx : \A j \in idx : j <= i].content

\* C5: the report's topic is the most recent user query before the
\* contact-collection turn, when there is one.
C5_TopicIsLastPriorQuery ==
    [][(HandleSend /\ waitingForNumber /\ ValidContact(input)
          /\ \E i \in 1..Len(messages) : messages[i].role = "user")
       => Last(tasks').text = LastUserQuery(messages)]_vars

\* C6: the Lead's queryContext is the first 100 characters, plus an ellipsis,
\* of the model answer on which the report was requested.
C6_LeadContextIsOfferedAnswer ==
    [][(HandleSend /\ waitingForNumber /\ ValidContact(input))
       => Last(leads').queryContext
            = Substring0(messages[Last(offers)].content, 100) \o "..."]_vars

\* C7: a failure while the report is generated appends the generic error
\* message as the reply, delivers no report, and leaves the state NORMAL.
C7_ReportFailureSurfacesError ==
    [][\A i \in 1..Len(tasks) :
         (tasks[i].kind = "report"
            /\ (RetrievalThrew(i) \/ Generated(i, GenerationErrorText)))
         => (/\ Last(messages') = ModelMsg(ReportErrorText)
             /\ ~waitingForNumber')]_vars

----------------------------------------------------------------------------
(* Properties of the live session *)

\* C8: once a live session is closed (local stop, remote close, connection or
\* server error) both of its audio contexts are closed and its microphone
\* stream is released.
C8_ClosedSessionTornDown ==
    \A k \in 1..Len(sessions) :
        sessions[k].state \in {"closed", "failed"}
        => (/\ audioContexts[k].input = "closed"
            /\ audioContexts[k].output = "closed"
            /\ ~sessions[k].mic)

\* C9: sendRealtimeInput is only ever called on a session that is open.
C9_FramesOnlyToOpenSession ==
    \A k \in 1..Len(sessions) :
        \A i \in 1..Len(sessions[k].received) : sessions[k].received[i].open

\* C10: stopLiveSession with no session (never opened, or stopped before)
\* closes no session, calls close() on no audio context that is already
\* closed, and leaves the state CLOSED.
C10_StopIsIdempotent ==
    [][(StopLiveClick /\ liveSessionRef = 0)
       => (/\ sessions' = sessions
           /\ closeErrors' = closeErrors
           /\ liveSessionRef' = 0
           /\ ~isRecording')]_vars

----------------------------------------------------------------------------
(* Properties of the retrieval *)

\* The query embedding a retrieval received from getEmbeddings([query]) is empty.
EmptyQueryEmbedding == Len(call.embeddings) = 0 \/ Len(call.embeddings[1]) = 0

\* C15: in every retrieval path (normal turn, report, live tool call) an
\* empty query embedding means that findBestMatches is not called and that
\* the match set is empty.
C15_EmptyEmbeddingSkipsMatcher ==
    (call.fn = "retrieval" /\ call.returned /\ EmptyQueryEmbedding)
    => (~call.result.invoked /\ call.result.matches = <<>>)

\* A chunk without an embedding: the field is absent or the vector is empty.
NoEmbedding(chunk) == ~chunk.has \/ Len(chunk.embedding) = 0

\* A chunk whose embedding can be compared with the query: same length, not zero.
ProperFor(queryEmbedding, chunk) ==
    /\ chunk.has
    /\ Len(chunk.embedding) = Len(queryEmbedding)
    /\ SumSquares(chunk.embedding) > 0

MatchesReturned == call.fn = "findBestMatches" /\ call.returned

\* C16: when the corpus holds at least topK chunks with a valid embedding (the
\* others having none), findBestMatches returns no chunk without an embedding.
C16_NoEmbeddingNeverReturned ==
    (/\ MatchesReturned
     /\ Len(call.queryEmbedding) > 0
     /\ \A i \in 1..Len(call.chunks) :
          NoEmbedding(call.chunks[i]) \/ ProperFor(call.queryEmbedding, call.chunks[i])
     /\ Cardinality({ i \in 1..Len(call.chunks) :
                        ProperFor(call.queryEmbedding, call.chunks[i]) }) >= call.topK)
    => \A i \in 1..Len(call.result) : ~NoEmbedding(call.result[i])

\* The similarity of a comparable chunk to the query, as a fraction.
Similarity(chunk) == CosineSimilarity(call.queryEmbedding, chunk.embedding)

AtLeast(a, b) == a.num * b.den >= b.num * a.den

\* C17: on a corpus of N chunks that all have a valid embedding and for
\* topK <= N, findBestMatches returns exactly topK chunks of the corpus, none
\* less similar than a chunk left out, in non-increasing similarity, chunks of
\* equal similarity in corpus order.
C17_TopKSortedStable ==
    (/\ MatchesReturned
     /\ Len(call.queryEmbedding) > 0
     /\ \A i \in 1..Len(call.chunks) : ProperFor(call.queryEmbedding, call.chunks[i])
     /\ call.topK <= Len(call.chunks))
    => (/\ Len(call.result) = call.topK
        /\ \A i \in 1..Len(call.result) :
             /\ call.result[i].id \in 1..Len(call.chunks)
             /\ call.result[i] = call.chunks[call.result[i].id]
        /\ \A i, j \in 1..Len(call.result) :
             i < j => /\ AtLeast(Similarity(call.result[i]), Similarity(call.result[j]))
                      /\ AtLeast(Similarity(call.result[j]), Similarity(call.result[i]))
                           => call.result[i].id < call.result[j].id
        /\ \A i \in 1..Len(call.result), k \in 1..Len(call.chunks) :
             (\A j \in 1..Len(call.result) : call.result[j].id # k)
               => AtLeast(Similarity(call.result[i]), Similarity(call.chunks[k])))

C17_Witness ==
    /\ MatchesReturned
    /\ call.queryEmbedding = <<1, 0>>
    /\ call.chunks = << Chunk(1, TRUE, <<0, 1>>), Chunk(2, TRUE, <<1, 0>>),
                        Chunk(3, TRUE, <<1, 0>>) >>
    /\ call.topK = 2
    /\ call.result = << Chunk(2, TRUE, <<1, 0>>), Chunk(3, TRUE, <<1, 0>>) >>

\* C18: when the query vector and a chunk's embedding differ in length, the
\* comparison is a mismatch error: findBestMatches does not return a ranking.
C18_LengthMismatchIsError ==
    (/\ MatchesReturned
     /\ Len(call.queryEmbedding) > 0
     /\ call.topK > 0
     /\ \E i \in 1..Len(call.chunks) :
          /\ call.chunks[i].has
          /\ Len(call.chunks[i].embedding) > 0
          /\ Len(call.chunks[i].embedding) # Len(call.queryEmbedding))
    => call.threw

----------------------------------------------------------------------------
(* Properties of chunkText *)

\* The text without its whitespace characters.
RECURSIVE NonSpace(_)
NonSpace(s) ==
    IF Len(s) = 0 THEN ""
    ELSE (IF IsSpace(CharAt(s, 1)) THEN "" ELSE CharAt(s, 1))
         \o NonSpace(SubSeq(s, 2, Len(s)))

RECURSIVE Concat(_)
Concat(chunks) == IF Len(chunks) = 0 THEN "" ELSE chunks[1] \o Concat(Tail(chunks))

\* C19: the chunks of chunkText, concatenated in order, hold the
\* non-whitespace characters of the text, none lost, duplicated or reordered,
\* and no chunk is empty.
C19_ChunksReconstructText ==
    (call.fn = "chunkText" /\ call.returned)
    => (/\ NonSpace(Concat(call.result)) = NonSpace(call.text)
        /\ \A i \in 1..Len(call.result) : call.result[i] # "")

----------------------------------------------------------------------------
(* Properties of getEmbeddings *)

\* C20: getEmbeddings returns one vector per text, in the order of the texts;
\* a blank text gets the empty vector and no remote call, a text whose remote
\* call fails gets the empty vector, every other text the vector of the service.
C20_OneVectorPerText ==
    (call.fn = "getEmbeddings" /\ call.returned)
    => (/\ Len(call.embeddings) = Len(call.texts)
        /\ call.remoteCalls = SelectSeq(call.texts, LAMBDA t : t # "" /\ Trim(t) # "")
        /\ \A i \in 1..Len(call.texts) :
             call.embeddings[i] =
               IF call.texts[i] # "" /\ Trim(call.texts[i]) # "" /\ call.outcomes[i] = "values"
               THEN EmbedContent(call.texts[i]) ELSE <<>>)

C20_Witness ==
    /\ call.fn = "getEmbeddings"
    /\ call.returned
    /\ call.texts = << "a", "  ", "bc" >>
    /\ call.outcomes = << "throws", "none", "values" >>
    /\ call.embeddings = << <<>>, <<>>, <<2, 1>> >>

----------------------------------------------------------------------------
(* Properties of the audio streams and of the tool calls *)

\* Wall-clock start and end of a scheduled frame.
WallStart(f) == audioContexts[f.ctx].born + f.start
WallEnd(f) == WallStart(f) + f.duration

\* The wall-clock time at which a frame falls silent: its end, or the moment
\* its context was closed.
SilentAt(f) ==
    IF audioContexts[f.ctx].output = "closed"
    THEN Min(WallEnd(f), audioContexts[f.ctx].closedAt) ELSE WallEnd(f)

\* C11: inbound frames are scheduled in arrival order without overlap: a
\* frame starts at max(cursor, current time) and the cursor advances by its
\* duration; a frame started on a running context starts neither before the
\* time of the call nor before an earlier frame has fallen silent.
C11_PlaybackInOrderNoOverlap ==
    /\ [][\A k \in 1..Len(sessions), d \in 1..MaxDuration :
            OnMessage(k, d, <<>>)
            => /\ playback' = Append(playback, Last(playback'))
               /\ Last(playback').start
                    = Max(nextStartTimeRef, CurrentTime(outputAudioContextRef))
               /\ nextStartTimeRef' = Last(playback').start + d]_vars
    /\ [](\A i \in 1..Len(playback) :
            playback[i].audible
            => /\ WallStart(playback[i]) >= playback[i].at
               /\ \A j \in 1..(i - 1) :
                    playback[j].audible => WallStart(playback[i]) >= SilentAt(playback[j]))

\* C12: the frames a session receives are the frames captured, in the order
\* of capture, those captured while the session was connecting included.
C12_OutboundInCaptureOrder ==
    \A k \in 1..Len(sessions) :
        \A i \in 1..Len(sessions[k].received) : sessions[k].received[i].frame = i

C12_Witness ==
    \E k \in 1..Len(sessions) :
        /\ sessions[k].early >= 2
        /\ Len(sessions[k].received) >= 2
        /\ sessions[k].received[1].open

\* The identifiers of the tool responses a session was sent.
ResponseIds(sess) ==
    [i \in 1..Len(sess.toolResponses) |-> sess.toolResponses[i].functionResponses.id]

\* C13: a search call whose retrieval completes gets exactly one response,
\* sent into the session the call came from and carrying the call's
\* identifier; no session is sent two responses with the same identifier.
C13_ToolResponseCorrelated ==
    /\ [][\A h \in 1..Len(handlers), e \in ToolEmbeddings :
            ToolEmbedded(h, e)
            => LET k == handlers[h].session
               IN /\ ResponseIds(sessions'[k])
                       = Append(ResponseIds(sessions[k]), handlers[h].calls[handlers[h].i].id)
                  /\ handlers[h].calls[handlers[h].i].id \in 1..sessions[k].issued
                  /\ \A j \in 1..Len(sessions) :
                       j # k => sessions'[j].toolResponses = sessions[j].toolResponses]_vars
    /\ [](\A k \in 1..Len(sessions) :
            \A i, j \in 1..Len(sessions[k].toolResponses) :
               ResponseIds(sessions[k])[i] = ResponseIds(sessions[k])[j] => i = j)

C13_Witness ==
    /\ Len(sessions) = 2
    /\ ResponseIds(sessions[1]) = << 2, 1 >>
    /\ sessions[2].state = "open"

\* C14: while a tool call of an open session awaits its embedding, an inbound
\* audio frame that arrives is scheduled and a captured frame is sent at once.
C14_ToolCallDoesNotBlockAudio ==
    \A h \in 1..Len(handlers) :
        LET k == handlers[h].session
        IN sessions[k].state = "open"
           => /\ Len(playback) < MaxFrames => ENABLED OnMessage(k, 1, <<>>)
              /\ sessions[k].captured < MaxFrames => ENABLED OnAudioProcess(k)

C14_Witness ==
    \E h \in 1..Len(handlers) :
        /\ \E i \in 1..Len(playback) :
             playback[i].awaiting > 0 /\ playback[i].session = handlers[h].session
        /\ Len(sessions[handlers[h].session].received) > handlers[h].sentBefore

----------------------------------------------------------------------------
(* Properties of the Knowledge Store and of the audit log *)

\* C23: after deleteDocument(id) no stored chunk has docId id and no stored
\* document has that id, and the documents and chunks of every other id are
\* what they were, in the same order.
C23_DeleteCascades ==
    [][\A id \in DocIds :
          DeleteDocument(id) =>
            /\ \A i \in 1..Len(storedChunks') : storedChunks'[i].docId # id
            /\ \A i \in 1..Len(storedDocs') : storedDocs'[i].id # id
            /\ storedDocs' = SelectSeq(storedDocs, LAMBDA d : d.id # id)
            /\ storedChunks' = SelectSeq(storedChunks, LAMBDA c : c.docId # id)]_vars

\* The seed document was deleted while an uploaded document and its chunks stay.
C23_Witness ==
    /\ Len(storedDocs) > 0
    /\ Len(storedChunks) > 0
    /\ \A i \in 1..Len(storedDocs) : storedDocs[i].id # "seed-1"
    /\ \A i \in 1..Len(storedChunks) : storedChunks[i].docId # "seed-1"

ChunksOf(id) == SelectSeq(storedChunks, LAMBDA c : c.docId = id)

\* C24: in every state a reader of the store can observe, each stored
\* document has as many stored chunks as its chunkCount says, and each
\* stored chunk belongs to a stored document.
C24_ChunksAtomicWithDocument ==
    /\ \A i \in 1..Len(storedDocs) :
          Len(ChunksOf(storedDocs[i].id)) = storedDocs[i].chunkCount
    /\ \A j \in 1..Len(storedChunks) :
          \E i \in 1..Len(storedDocs) : storedDocs[i].id = storedChunks[j].docId

\* C25: a step that changes the text of a stored chunk leaves it with an
\* embedding that is empty (invalidated) or the embedding of its new text
\* (regenerated).
C25_EditRefreshesEmbedding ==
    [][\A i \in 1..Len(storedChunks), j \in 1..Len(storedChunks') :
          (storedChunks[i].id = storedChunks'[j].id
             /\ storedChunks[i].text # storedChunks'[j].text)
          => storedChunks'[j].embedding
               \in { <<>>, EmbedContent(storedChunks'[j].text) }]_vars

\* C30: the stored audit log never holds more than 100 entries, and its
\* entries are ordered newest first.
C30_LogKeepsLast100 ==
    /\ Len(storedLogs) <= LogLimit
    /\ \A i \in 1..(Len(storedLogs) - 1) :
          storedLogs[i].timestamp > storedLogs[i + 1].timestamp

----------------------------------------------------------------------------
(* Properties of the generated answer *)

\* C21: generateRAGResponse always returns a message object and never
\* throws; when the generation call fails the object is the fixed error text
\* with the language tag "Error".
C21_GenerationNeverThrows ==
    (call.fn = "generateRAGResponse" /\ call.returned) =>
        /\ ~call.result.threw
        /\ call.result.text # ""
        /\ call.outcome.kind = "throws" =>
             /\ call.result.text = GenerationErrorText
             /\ call.result.language = "Error"

C21_Witness ==
    /\ call.fn = "generateRAGResponse"
    /\ call.returned
    /\ call.outcome.kind = "throws"

\* The grounding chunks of a response that cite a web page.
WebSources(outcome) ==
    IF outcome.kind = "response" /\ outcome.hasGrounding
    THEN SelectSeq(outcome.groundingChunks, LAMBDA c : c.web /\ c.uri # "")
    ELSE <<>>

\* C22: the citations of the answer of a normal turn are the document titles
\* of the chunks retrieved, in retrieval order, then one citation per web
\* source of the response, in the response's order: its title, or its URI
\* when it has no title.
C22_CitationsRetrievalThenSearch ==
    (call.fn = "processQuery" /\ call.returned) =>
        LET cites == call.result.citations
            retrieved == call.relevantChunks
            web == WebSources(call.outcome)
        IN /\ Len(cites) = Len(retrieved) + Len(web)
           /\ \A i \in 1..Len(retrieved) : cites[i] = retrieved[i].docTitle
           /\ \A i \in 1..Len(web) :
                cites[Len(retrieved) + i] =
                    (IF web[i].title # "" THEN web[i].title ELSE web[i].uri)

\* Two chunks of different documents were retrieved and the response cites
\* two web sources, one of them without title.
C22_Witness ==
    /\ call.fn = "processQuery"
    /\ call.returned
    /\ Len(call.relevantChunks) >= 2
    /\ call.relevantChunks[1].docTitle # call.relevantChunks[2].docTitle
    /\ Len(WebSources(call.outcome)) = 2
    /\ WebSources(call.outcome)[1].title = ""
    /\ WebSources(call.outcome)[2].title # ""

----------------------------------------------------------------------------
(* Properties of the turns *)

\* The RAG turns (normal or report) in flight.
RagTurns == Len(SelectSeq(tasks, LAMBDA t : t.kind \in {"query", "report"}))

\* C27: at most one RAG turn is in flight at any time, and the loading flag
\* is set as long as one is.
C27_OneTurnInFlight ==
    /\ RagTurns <= 1
    /\ RagTurns = 1 => isLoading

InFlight(s) == \E i \in 1..Len(tasks) : tasks[i].turn = s

UserMsgs == Len(SelectSeq(messages, LAMBDA m : m.role = "user"))

\* The model messages that answer a user message: all but the welcome, the
\* request for the number and the rejection of a number.
Replies ==
    Len(SelectSeq(messages,
                  LAMBDA m : m.role = "model"
                             /\ m.content \notin {WelcomeText, ContactPrompt, InvalidNumberText}))

\* C28: every turn in flight eventually ends, and with the loading flag
\* cleared; every user message has been answered by exactly one model
\* message, or its turn is still in flight.
C28_TurnsEnd ==
    /\ \A s \in 1..MaxTasks : InFlight(s) ~> (~InFlight(s) /\ ~isLoading)
    /\ [](UserMsgs = Replies + RagTurns)

\* A spoken question was answered and a typed one ended in the error message.
C28_Witness ==
    /\ Len(tasks) = 0
    /\ ~isLoading
    /\ \E i \in 1..Len(messages) : messages[i].role = "user" /\ messages[i].isAudio
    /\ \E i \in 1..Len(messages) : messages[i] = ModelMsg(ChatErrorText)
    /\ \E i \in 1..Len(messages) : messages[i].shareContent # ""

----------------------------------------------------------------------------
(* Properties of the conversation history *)

\* C26: the history is append-only: every step leaves the earlier history
\* as a prefix of the new one, and the welcome message is appended only to
\* an empty history.
C26_HistoryAppendOnly ==
    [][/\ IsPrefix(messages, messages')
       /\ (Len(messages') > Len(messages) /\ Last(messages') = ModelMsg(WelcomeText))
              => messages = <<>>]_vars

\* The poll has picked up live mode in a conversation that began with the
\* welcome message and went through a failed turn and a report.
C26_Witness ==
    /\ useLiveMode
    /\ Len(messages) >= 4
    /\ messages[1] = ModelMsg(WelcomeText)
    /\ \E i \in 2..Len(messages) : messages[i] = ModelMsg(ChatErrorText)
    /\ \E i \in 2..Len(messages) : messages[i].shareContent # ""

----------------------------------------------------------------------------
(* Properties of the live session's lifetime *)

\* The sessions that are connecting or open and whose close has not been
\* requested.
LiveSessions ==
    { k \in 1..Len(sessions) :
        /\ sessions[k].state \in {"connecting", "open"}
        /\ \A j \in 1..Len(sessions[k].thens) : sessions[k].thens[j] # CloseThen }

\* C29: at most one live session is open or connecting at any time.
C29_OneLiveSession == Cardinality(LiveSessions) <= 1

====
